---- MODULE Spec2Model ----
(***************************************************************************)
(* Model of the business-card site script (src/app.js; src/unnamed/part_000*)
(* is an earlier iteration of the same script).                            *)
(*                                                                         *)
(* Strings are sequences of one-character strings, so that the script's    *)
(* string conversions (substring, split, regex replace, toLowerCase) are   *)
(* computed rather than assumed.                                           *)
(***************************************************************************)
EXTENDS Integers, Sequences, FiniteSets, TLC

VARIABLES
    location,           \* window.location: [hash, pathname]
    availableProfiles,  \* app.js:649
    profilesCache,      \* app.js:652
    site,               \* the deployed static files: [index, listing]
    handlers,           \* one entry per dispatched DOMContentLoaded/popstate event
    preload,            \* the preloadProfileImages() call of the page-load handler
    running,            \* the set holding the handler whose continuation is executing
    container,          \* #card-container innerHTML, as a view
    documentTitle,      \* document.title
    openCurrentVCard,   \* window.openCurrentVCard
    downloadCurrentVCard, \* window.downloadCurrentVCard
    nFetch,             \* number of fetch() calls issued by loadAvailableProfiles
    probe               \* the driver of the single-function specifications

vars == <<location, availableProfiles, profilesCache, site, handlers, preload,
          running, container, documentTitle, openCurrentVCard,
          downloadCurrentVCard, nFetch, probe>>

----------------------------------------------------------------------------
(* Bounds of the model *)

\* popstate events dispatched after the page load
MaxNav == 1
\* longest pathname drawn for the URL-resolution specification
MaxPathLen == 4
\* longest hash fragment drawn for the URL-resolution specification
MaxHashLen == 2
\* loadProfile calls the store driver makes in sequence
MaxCalls == 2

----------------------------------------------------------------------------
(* Values *)

\* JavaScript null / undefined where a string is expected (no string: its one
\* element is not a character)
Null == <<"null">>

\* JavaScript null / undefined where a profile record is expected
NoProfile == [null |-> TRUE]

----------------------------------------------------------------------------
(* Strings *)

LowerOf(c) ==
    CASE c = "A" -> "a"
      [] c = "B" -> "b"
      [] c = "D" -> "d"
      [] c = "H" -> "h"
      [] c = "J" -> "j"
      [] c = "L" -> "l"
      [] c = "M" -> "m"
      [] c = "N" -> "n"
      [] c = "O" -> "o"
      [] c = "S" -> "s"
      [] c = "T" -> "t"
      [] OTHER -> c

\* String.prototype.toLowerCase
toLowerCase(s) == [k \in 1..Len(s) |-> LowerOf(s[k])]

\* the character class [a-z0-9]
IsLowerAlnum(c) ==
    c \in {"a", "b", "c", "d", "e", "f", "g", "h", "i", "j", "k", "l", "m",
           "n", "o", "p", "q", "r", "s", "t", "u", "v", "w", "x", "y", "z",
           "0", "1", "2", "3", "4", "5", "6", "7", "8", "9"}

\* String.prototype.endsWith
endsWith(s, suffix) ==
    /\ Len(s) >= Len(suffix)
    /\ SubSeq(s, Len(s) - Len(suffix) + 1, Len(s)) = suffix

\* s.slice(0, -n)
DropLast(s, n) == SubSeq(s, 1, Len(s) - n)

\* String.prototype.includes for a single character
includesChar(s, c) == \E k \in 1..Len(s) : s[k] = c

\* s.replace(/^\/+/, '')
RECURSIVE StripLeadingSlashes(_)
StripLeadingSlashes(s) ==
    IF s # <<>> /\ Head(s) = "/" THEN StripLeadingSlashes(Tail(s)) ELSE s

\* s.split('/').pop(): the text after the last slash
RECURSIVE LastSegmentOf(_)
LastSegmentOf(s) ==
    IF s = <<>> THEN <<>>
    ELSE IF s[Len(s)] = "/" THEN <<>>
    ELSE LastSegmentOf(DropLast(s, 1)) \o <<s[Len(s)]>>

\* s.split('/').filter(Boolean).pop(): the last non-empty segment (Null if none)
RECURSIVE LastNonEmptySegment(_)
LastNonEmptySegment(s) ==
    IF s = <<>> THEN Null
    ELSE IF s[Len(s)] = "/" THEN LastNonEmptySegment(DropLast(s, 1))
    ELSE LastSegmentOf(s)

DotHtml == <<".", "h", "t", "m", "l">>
DotHtm == <<".", "h", "t", "m">>
DotJson == <<".", "j", "s", "o", "n">>
IndexHtml == <<"i", "n", "d", "e", "x">> \o DotHtml

\* s.replace(/\.(html|htm)$/i, '')
StripHtmlSuffix(s) ==
    IF endsWith(toLowerCase(s), DotHtml) THEN DropLast(s, 5)
    ELSE IF endsWith(toLowerCase(s), DotHtm) THEN DropLast(s, 4)
    ELSE s

\* s.replace(/\/(?:index\.html)?$/, '')
StripIndexSuffix(s) ==
    IF endsWith(s, <<"/">> \o IndexHtml) THEN DropLast(s, 11)
    ELSE IF endsWith(s, <<"/">>) THEN DropLast(s, 1)
    ELSE s

\* s.replace(/\.json$/i, '')
StripJsonSuffix(s) ==
    IF endsWith(toLowerCase(s), DotJson) THEN DropLast(s, 5) ELSE s

\* s.replace(/[^a-z0-9]+/g, '-')
RECURSIVE CollapseNonAlnum(_)
CollapseNonAlnum(s) ==
    IF s = <<>> THEN <<>>
    ELSE IF IsLowerAlnum(Head(s)) THEN <<Head(s)>> \o CollapseNonAlnum(Tail(s))
    ELSE IF Len(s) >= 2 /\ ~IsLowerAlnum(s[2]) THEN CollapseNonAlnum(Tail(s))
    ELSE <<"-">> \o CollapseNonAlnum(Tail(s))

\* s.replace(/(^-|-$)/g, '')
TrimHyphens(s) ==
    LET a == IF s # <<>> /\ Head(s) = "-" THEN Tail(s) ELSE s
    IN  IF a # <<>> /\ a[Len(a)] = "-" THEN DropLast(a, 1) ELSE a

\* app.js:71, the slug of a profile's name
SlugOf(name) == TrimHyphens(CollapseNonAlnum(toLowerCase(name)))

\* all strings over alphabet A of length at most n
StringsUpTo(A, n) == UNION {[1..k -> A] : k \in 0..n}

----------------------------------------------------------------------------
(* The deployed site: static files the script fetches *)

IdA == <<"a">>
IdB == <<"b">>
\* a profile file whose JSON body is the literal null
IdN == <<"n">>

ProfileIds == {IdA, IdB, IdN}

\* the body of profiles/<id>.json: only the fields the resolver and the
\* renderer branch on
ProfileFile(id) ==
    CASE id = IdA -> [id |-> IdA, name |-> <<"D", ".">>, path |-> Null]
      [] id = IdB -> [id |-> IdB, name |-> <<"A">>, path |-> <<"/", "d", "/">>]
      [] OTHER -> NoProfile

\* anchors of a profiles/ directory listing
HrefA == IdA \o DotJson
HrefB == <<"/", "p", "/", "b", ".", "J", "S", "O", "N">>
HrefUp == <<".", ".", "/">>
HrefTxt == <<"a", ".", "t">>

\* the deployments drawn: the body of profiles/index.json (isArray: whether it
\* parses to an array) and the anchors of the profiles/ listing
Sites ==
    { [isArray |-> TRUE, index |-> <<IdA, IdB>>, listing |-> <<HrefUp, HrefA>>],
      [isArray |-> FALSE, index |-> <<>>,
       listing |-> <<HrefUp, HrefB, HrefTxt, HrefA>>] }

\* how a fetch of a JSON resource can end
JsonOutcomes == {"neterr", "notok", "badjson", "ok"}
\* how a fetch of the directory listing can end (dir.text() does not parse)
TextOutcomes == {"neterr", "notok", "ok"}

----------------------------------------------------------------------------
(* Profile Resolver *)

\* window.location.hash.substring(1)
HashOf(loc) == IF loc.hash = <<>> THEN <<>> ELSE Tail(loc.hash)

\* a buggy variant: the path segment takes precedence over the hash
getProfileFromURL_PathFirst(loc) ==
    LET cleanPath == IF endsWith(loc.pathname, <<"/">>)
                     THEN DropLast(loc.pathname, 1) ELSE loc.pathname
        lastSegment == LastSegmentOf(cleanPath)
    IN  IF lastSegment # <<>> /\ ~includesChar(lastSegment, ".")
        THEN lastSegment
        ELSE IF HashOf(loc) # <<>> THEN HashOf(loc) ELSE Null

\* a buggy variant: only index.html is excluded, not every dotted segment
getProfileFromURL_NoDotCheck(loc) ==
    LET cleanPath == IF endsWith(loc.pathname, <<"/">>)
                     THEN DropLast(loc.pathname, 1) ELSE loc.pathname
        lastSegment == LastSegmentOf(cleanPath)
    IN  IF HashOf(loc) # <<>> THEN HashOf(loc)
        ELSE IF lastSegment # <<>> /\ lastSegment # IndexHtml
             THEN lastSegment
             ELSE Null

\* app.js:2-19
getProfileFromURL(loc) ==
    LET hash == HashOf(loc)
        path == loc.pathname
        cleanPath == IF endsWith(path, <<"/">>) THEN DropLast(path, 1) ELSE path
        lastSegment == LastSegmentOf(cleanPath)
    IN  IF hash # <<>> THEN hash
        ELSE IF /\ lastSegment # <<>>
                /\ lastSegment # IndexHtml
                /\ ~includesChar(lastSegment, ".")
             THEN lastSegment
             ELSE Null

\* app.js:47
NormalizeSegment(segment) == StripHtmlSuffix(StripLeadingSlashes(segment))

\* app.js:63
NormalizeDeclaredPath(path) == StripIndexSuffix(StripLeadingSlashes(path))

\* a buggy variant: the slug is compared with the candidate as typed
ProfileMatches_CaseSensitive(p, normalized) ==
    \/ /\ p.path # Null /\ p.path # <<>>
       /\ NormalizeDeclaredPath(p.path) = normalized
    \/ /\ p.name # Null /\ p.name # <<>>
       /\ SlugOf(p.name) = normalized

\* app.js:61-73, whether loaded profile p answers to the normalized candidate
ProfileMatches(p, normalized) ==
    \/ /\ p.path # Null /\ p.path # <<>>
       /\ LET pPath == NormalizeDeclaredPath(p.path)
          IN  \/ pPath = normalized
              \/ <<"/">> \o pPath = normalized
              \/ pPath = <<"/">> \o normalized
    \/ /\ p.name # Null /\ p.name # <<>>
       /\ SlugOf(p.name) = toLowerCase(normalized)

\* a buggy variant: every candidate passes for a known identifier
includes_Always(arr, x) == TRUE

\* Array.prototype.includes
includes(arr, x) == \E k \in 1..Len(arr) : arr[k] = x

----------------------------------------------------------------------------
(* Profile Store *)

\* a buggy variant: no try/catch, a rejected fetch or a parse error escapes
loadProfileSettle_Rethrow(cache, id, outcome) ==
    [ret |-> IF outcome = "ok" THEN ProfileFile(id) ELSE NoProfile,
     cache |-> IF outcome = "ok" THEN [cache EXCEPT ![id] = ProfileFile(id)]
               ELSE cache,
     threw |-> outcome \in {"neterr", "badjson"}]

\* a buggy variant: a successful load is not remembered
loadProfileSettle_NoCache(cache, id, outcome) ==
    [ret |-> IF outcome = "ok" THEN ProfileFile(id) ELSE NoProfile,
     cache |-> cache,
     threw |-> FALSE]

\* app.js:24, the cache check of loadProfile
loadProfileCached(cache, id) == cache[id] # NoProfile

\* app.js:26-38, loadProfile once its fetch has ended with outcome
loadProfileSettle(cache, id, outcome) ==
    CASE outcome = "ok" ->
           [ret |-> ProfileFile(id),
            cache |-> [cache EXCEPT ![id] = ProfileFile(id)],
            threw |-> FALSE]
      [] outcome = "notok" -> [ret |-> NoProfile, cache |-> cache, threw |-> FALSE]
      [] OTHER -> [ret |-> NoProfile, cache |-> cache, threw |-> FALSE]

\* app.js:678, the anchors kept from a directory listing
IsJsonHref(h) == h # Null /\ h # <<>> /\ endsWith(toLowerCase(h), DotJson)

\* app.js:680-684, the identifier derived from one .json anchor
IdOfHref(f) == StripJsonSuffix(LastNonEmptySegment(f))

\* app.js:677-684, the identifiers derived from a directory listing
RECURSIVE IdsOfListing(_)
IdsOfListing(hrefs) ==
    IF hrefs = <<>> THEN <<>>
    ELSE IF IsJsonHref(Head(hrefs))
         THEN <<IdOfHref(Head(hrefs))>> \o IdsOfListing(Tail(hrefs))
         ELSE IdsOfListing(Tail(hrefs))

\* counters of the fetches of profiles/index.json and of profiles/, all zero
NoFetches == [index |-> 0, dir |-> 0]

EmptyCache == [id \in ProfileIds |-> NoProfile]

\* the caches the script can hold: each identifier absent or its file's record
Caches == {[id \in ProfileIds |-> IF id \in S THEN ProfileFile(id) ELSE NoProfile] :
              S \in SUBSET ProfileIds}

----------------------------------------------------------------------------
(* The page before the script has rendered anything *)

DefaultTitle == <<"I", "A", "V">>
TitleSuffix == <<" ", "-", " ">> \o DefaultTitle

EmptyContainer == [kind |-> "Empty", items |-> <<>>, profile |-> NoProfile]

NoPreload == [pc |-> "idle", i |-> 0, ids |-> <<>>, pending |-> {}]

\* the page at rest: what a single-function specification leaves untouched
PageAtRest ==
    /\ availableProfiles = <<>>
    /\ site \in {s \in Sites : ~s.isArray}
    /\ handlers = <<>>
    /\ preload = NoPreload
    /\ running = {}
    /\ container = EmptyContainer
    /\ documentTitle = DefaultTitle
    /\ openCurrentVCard = NoProfile
    /\ downloadCurrentVCard = NoProfile

pageVars == <<availableProfiles, site, handlers, preload, running, container,
              documentTitle, openCurrentVCard, downloadCurrentVCard>>

----------------------------------------------------------------------------
(* Specification SpecURL: getProfileFromURL applied to a drawn URL *)

PathAlphabet == {"a", ".", "/"}
HashAlphabet == {"a", ".", "b"}

\* window.location.pathname always starts with a slash
Pathnames ==
    {<<"/">> \o p : p \in StringsUpTo(PathAlphabet, MaxPathLen)}
        \cup {<<"/">> \o IndexHtml, <<"/", "a", "/">> \o IndexHtml}

\* window.location.hash is empty or a '#' followed by a non-empty fragment
HashValues ==
    {<<>>} \cup {<<"#">> \o f : f \in StringsUpTo(HashAlphabet, MaxHashLen) \ {<<>>}}

InitURL ==
    /\ location \in [hash : HashValues, pathname : Pathnames]
    /\ probe = [pc |-> "ready", ret |-> Null]
    /\ profilesCache = EmptyCache
    /\ nFetch = NoFetches
    /\ PageAtRest

ResolveURL ==
    /\ probe.pc = "ready"
    /\ probe' = [pc |-> "resolved", ret |-> getProfileFromURL(location)]
    /\ UNCHANGED <<location, profilesCache, nFetch, pageVars>>

NextURL == ResolveURL

SpecURL == InitURL /\ [][NextURL]_vars

----------------------------------------------------------------------------
(* Specification SpecLoad: loadProfile(id) called MaxCalls times in sequence, *)
(* each call starting after the previous one has completed                   *)

InitLoad ==
    /\ location = [hash |-> <<>>, pathname |-> <<"/">>]
    /\ profilesCache \in Caches
    /\ nFetch = NoFetches
    /\ probe \in [pc : {"call"}, id : ProfileIds, log : {<<>>}]
    /\ PageAtRest

\* app.js:22-24: the call returns the cached record or issues its fetch
LoadCall ==
    /\ probe.pc = "call"
    /\ Len(probe.log) < MaxCalls
    /\ IF loadProfileCached(profilesCache, probe.id)
       THEN probe' = [probe EXCEPT !.log = Append(@,
                            [outcome |-> "hit", fetched |-> FALSE,
                             ret |-> profilesCache[probe.id], threw |-> FALSE,
                             before |-> profilesCache, after |-> profilesCache])]
       ELSE probe' = [probe EXCEPT !.pc = "await"]
    /\ UNCHANGED <<location, profilesCache, nFetch, pageVars>>

\* app.js:26-38: the fetch ends and the call completes
LoadSettle ==
    /\ probe.pc = "await"
    /\ \E o \in JsonOutcomes :
          LET r == loadProfileSettle(profilesCache, probe.id, o)
          IN  /\ profilesCache' = r.cache
              /\ probe' = [probe EXCEPT !.pc = "call", !.log = Append(@,
                              [outcome |-> o, fetched |-> TRUE,
                               ret |-> r.ret, threw |-> r.threw,
                               before |-> profilesCache, after |-> r.cache])]
    /\ UNCHANGED <<location, nFetch, pageVars>>

NextLoad == LoadCall \/ LoadSettle

SpecLoad == InitLoad /\ [][NextLoad]_vars

----------------------------------------------------------------------------
(* Specification Spec: the page. The DOMContentLoaded handler runs at start, *)
(* popstate events arrive while no continuation is executing, and every      *)
(* await of a fetch is a point where other handlers and fetch completions    *)
(* interleave. A handler holds `running` from its dispatch, or from the end  *)
(* of the fetch it awaited, to its next pending fetch.                       *)

\* app.js:86
chunkSize == 8

\* the URLs a navigation can carry
NavURLs ==
    { [hash |-> <<>>, pathname |-> <<"/">>],
      [hash |-> <<"#", "a">>, pathname |-> <<"/">> \o IndexHtml],
      [hash |-> <<"#", "x">>, pathname |-> <<"/">>],
      [hash |-> <<>>, pathname |-> <<"/", "d">>] }

NoURL == [hash |-> Null, pathname |-> Null]

NewHandler(kind) ==
    [kind |-> kind, pc |-> "ensure", idx |-> "none", listed |-> FALSE,
     url |-> NoURL, candidate |-> Null, normalized |-> Null, profileId |-> Null,
     iter |-> <<>>, i |-> 0, failed |-> {}, loaded |-> <<>>, pending |-> {},
     heading |-> "none"]

\* a handler that has returned: its locals are gone; what it resolved and the
\* view it rendered are kept
Returned(me, view) ==
    [NewHandler(me.kind) EXCEPT !.pc = "done", !.candidate = me.candidate,
                                !.profileId = me.profileId, !.heading = view]

\* a handler whose ensureProfilesLoaded() has returned: the locals of
\* loadAvailableProfiles are gone
Resolving(me) == [me EXCEPT !.idx = "none", !.listed = FALSE]

Init ==
    /\ location \in NavURLs
    /\ site \in Sites
    /\ availableProfiles = <<>>
    /\ profilesCache = EmptyCache
    /\ handlers = <<NewHandler("load")>>
    /\ preload = NoPreload
    /\ running = {1}
    /\ container = EmptyContainer
    /\ documentTitle = DefaultTitle
    /\ openCurrentVCard = NoProfile
    /\ downloadCurrentVCard = NoProfile
    /\ nFetch = NoFetches
    /\ probe = [pc |-> "unused"]

domVars == <<container, documentTitle, openCurrentVCard, downloadCurrentVCard>>

\* the positions of ids whose loadProfile call has to fetch (app.js:24)
Uncached(cache, ids) ==
    {k \in 1..Len(ids) : ~loadProfileCached(cache, ids[k])}

\* a buggy variant: discovery runs again although the directory is known
ensureProfilesLoadedSkips_Never(avail) == FALSE

\* app.js:694, ensureProfilesLoaded returns the directory it already has
ensureProfilesLoadedSkips(avail) == Len(avail) > 0

\* app.js:662-672 and 686-689, what loadAvailableProfiles does once the fetch
\* of profiles/index.json has ended: take the list, go on to the directory
\* listing, or end in the catch block
loadAvailableProfilesAfterIndex(outcome, isArray) ==
    CASE outcome = "ok" /\ isArray -> "assign"
      [] outcome = "ok" /\ ~isArray -> "listing"
      [] outcome = "notok" -> "listing"
      [] OTHER -> "catch"

\* app.js:634, a popstate event is dispatched for a navigation to url u
PopState(u) ==
    /\ running = {}
    /\ Len(handlers) < MaxNav + 1
    /\ location' = u
    /\ handlers' = Append(handlers, NewHandler("pop"))
    /\ running' = {Len(handlers) + 1}
    /\ UNCHANGED <<availableProfiles, profilesCache, site, preload, domVars,
                   nFetch, probe>>

\* app.js:577 and 635, 693-696, 662: ensureProfilesLoaded up to its first await
EnsureProfilesLoaded(h) ==
    /\ running = {h}
    /\ handlers[h].pc = "ensure"
    /\ IF ensureProfilesLoadedSkips(availableProfiles)
       THEN /\ handlers' = [handlers EXCEPT ![h].pc = "resolve"]
            /\ UNCHANGED <<running, nFetch>>
       ELSE /\ handlers' = [handlers EXCEPT ![h].pc = "idx"]
            /\ nFetch' = [nFetch EXCEPT !.index = @ + 1]
            /\ running' = {}
    /\ UNCHANGED <<location, availableProfiles, profilesCache, site, preload,
                   domVars, probe>>

\* app.js:662-672, 686-689: the fetch of profiles/index.json ends
IndexSettle(h) ==
    /\ running = {}
    /\ handlers[h].pc = "idx"
    /\ \E o \in JsonOutcomes :
          LET todo == loadAvailableProfilesAfterIndex(o, site.isArray)
              seen == IF o = "ok" /\ ~site.isArray THEN "notarray" ELSE o
          IN  /\ handlers' = [handlers EXCEPT
                     ![h].idx = seen,
                     ![h].listed = (todo = "listing"),
                     ![h].pc = IF todo = "listing" THEN "dir" ELSE "resolve"]
              /\ availableProfiles' =
                     IF todo = "assign" THEN site.index ELSE availableProfiles
              /\ nFetch' = IF todo = "listing"
                           THEN [nFetch EXCEPT !.dir = @ + 1] ELSE nFetch
              /\ running' = IF todo = "listing" THEN {} ELSE {h}
    /\ UNCHANGED <<location, profilesCache, site, preload, domVars, probe>>

\* app.js:672-689: the fetch of the profiles/ listing ends
ListingSettle(h) ==
    /\ running = {}
    /\ handlers[h].pc = "dir"
    /\ \E o \in TextOutcomes :
          availableProfiles' =
              IF o = "ok" THEN IdsOfListing(site.listing) ELSE availableProfiles
    /\ handlers' = [handlers EXCEPT ![h].pc = "resolve"]
    /\ running' = {h}
    /\ UNCHANGED <<location, profilesCache, site, preload, domVars, nFetch, probe>>

\* a buggy variant: every remaining profile is loaded at once
PreloadFrom_Unbatched(i, avail, cache) ==
    IF Uncached(cache, SubSeq(avail, i + 1, Len(avail))) = {}
    THEN [pc |-> "done", i |-> Len(avail), ids |-> <<>>, pending |-> {}]
    ELSE [pc |-> "wait", i |-> i, ids |-> SubSeq(avail, i + 1, Len(avail)),
          pending |-> Uncached(cache, SubSeq(avail, i + 1, Len(avail)))]

\* app.js:87-90: preloadProfileImages from directory position i up to its next
\* pending await: the first chunk with a load that has to fetch
RECURSIVE PreloadFrom(_, _, _)
PreloadFrom(i, avail, cache) ==
    IF i >= Len(avail)
    THEN [pc |-> "done", i |-> i, ids |-> <<>>, pending |-> {}]
    ELSE LET last == IF Len(avail) < i + chunkSize THEN Len(avail)
                     ELSE i + chunkSize
             chunk == SubSeq(avail, i + 1, last)
         IN  IF Uncached(cache, chunk) = {}
             THEN PreloadFrom(i + chunkSize, avail, cache)
             ELSE [pc |-> "wait", i |-> i, ids |-> chunk,
                   pending |-> Uncached(cache, chunk)]

\* app.js:81-90: preloadProfileImages up to its first pending await
StartPreload(avail, cache) == PreloadFrom(0, avail, cache)

\* app.js:580-587 and 636-641, 45-55: the handler starts the preloading (page
\* load only), reads the URL and resolves the candidate up to the alias loop
Resolve(h) ==
    /\ running = {h}
    /\ handlers[h].pc = "resolve"
    /\ LET started == IF handlers[h].kind = "load"
                      THEN StartPreload(availableProfiles, profilesCache)
                      ELSE preload
           cand == getProfileFromURL(location)
           normalized == NormalizeSegment(cand)
       IN  /\ preload' = started
           /\ handlers' = [handlers EXCEPT ![h] =
                 IF cand # Null /\ ~includes(availableProfiles, cand)
                 THEN IF includes(availableProfiles, normalized)
                      THEN [Resolving(@) EXCEPT
                                !.url = location, !.candidate = cand,
                                !.normalized = normalized,
                                !.profileId = normalized, !.pc = "render"]
                      ELSE [Resolving(@) EXCEPT
                                !.url = location, !.candidate = cand,
                                !.normalized = normalized,
                                !.iter = availableProfiles, !.i = 1,
                                !.pc = "alias"]
                 ELSE [Resolving(@) EXCEPT
                           !.url = location, !.candidate = cand,
                           !.profileId = cand, !.pc = "render"]]
    /\ UNCHANGED <<location, availableProfiles, profilesCache, site, running,
                   domVars, nFetch, probe>>

\* app.js:57-76: one turn of the alias loop, up to the await of a fetch
AliasStep(h) ==
    /\ running = {h}
    /\ handlers[h].pc = "alias"
    /\ LET me == handlers[h]
       IN  IF me.i > Len(me.iter)
           THEN /\ handlers' = [handlers EXCEPT ![h].profileId = Null,
                                                ![h].pc = "render"]
                /\ UNCHANGED running
           ELSE IF loadProfileCached(profilesCache, me.iter[me.i])
           THEN /\ handlers' = [handlers EXCEPT ![h] =
                      IF ProfileMatches(profilesCache[me.iter[me.i]], me.normalized)
                      THEN [@ EXCEPT !.profileId = me.iter[me.i], !.pc = "render"]
                      ELSE [@ EXCEPT !.i = @ + 1]]
                /\ UNCHANGED running
           ELSE /\ handlers' = [handlers EXCEPT ![h].pc = "aliasWait"]
                /\ running' = {}
    /\ UNCHANGED <<location, availableProfiles, profilesCache, site, preload,
                   domVars, nFetch, probe>>

\* app.js:58-73, 26-38: the fetch awaited by the alias loop ends
AliasSettle(h) ==
    /\ running = {}
    /\ handlers[h].pc = "aliasWait"
    /\ \E o \in JsonOutcomes :
          LET me == handlers[h]
              r == loadProfileSettle(profilesCache, me.iter[me.i], o)
          IN  /\ profilesCache' = r.cache
              /\ handlers' = [handlers EXCEPT ![h] =
                    IF r.ret = NoProfile
                    THEN [@ EXCEPT !.failed = @ \cup {me.i}, !.i = @ + 1,
                                   !.pc = "alias"]
                    ELSE IF ProfileMatches(r.ret, me.normalized)
                    THEN [@ EXCEPT !.profileId = me.iter[me.i], !.pc = "render"]
                    ELSE [@ EXCEPT !.i = @ + 1, !.pc = "alias"]]
    /\ running' = {h}
    /\ UNCHANGED <<location, availableProfiles, site, preload, domVars, nFetch,
                   probe>>


\* a buggy variant: an entry for every directory position, loaded or not
ListItems_AllEntries(loaded, avail, k) ==
    [j \in 1..Len(loaded) |->
        [href |-> IF j <= Len(avail) THEN avail[j] ELSE Null,
         name |-> IF loaded[j] = NoProfile THEN Null ELSE loaded[j].name]]

\* app.js:399-401 and 421-423: the entries of the rendered list, one for each
\* loaded profile, linked by the directory's identifier at that position
RECURSIVE ListItems(_, _, _)
ListItems(loaded, avail, k) ==
    IF k > Len(loaded) THEN <<>>
    ELSE IF loaded[k] = NoProfile THEN ListItems(loaded, avail, k + 1)
    ELSE <<[href |-> IF k <= Len(avail) THEN avail[k] ELSE Null,
            name |-> loaded[k].name]>> \o ListItems(loaded, avail, k + 1)

\* app.js:391 and 412: the handler maps loadProfile over the directory and
\* awaits the loads under the given heading
ListStarted(me, heading, avail, cache) ==
    [me EXCEPT !.pc = "listWait", !.heading = heading, !.iter = avail,
               !.loaded = [k \in 1..Len(avail) |-> cache[avail[k]]],
               !.pending = Uncached(cache, avail)]

\* app.js:460-569: the card of profile p replaces the container's content, and
\* the title and the export actions are set
RenderProfileCard(p) ==
    /\ container' = [kind |-> "Card", items |-> <<>>, profile |-> p]
    /\ documentTitle' = p.name \o TitleSuffix
    /\ openCurrentVCard' = p
    /\ downloadCurrentVCard' = p

\* app.js:378-408: renderCard up to its first await of a fetch
RenderCard(h) ==
    /\ running = {h}
    /\ handlers[h].pc = "render"
    /\ LET me == handlers[h]
       IN  IF me.profileId = Null \/ me.profileId = <<>>
           THEN /\ handlers' = [handlers EXCEPT ![h] =
                      ListStarted(me, "Listing", availableProfiles, profilesCache)]
                /\ running' = IF Uncached(profilesCache, availableProfiles) = {}
                              THEN {h} ELSE {}
                /\ UNCHANGED domVars
           ELSE IF loadProfileCached(profilesCache, me.profileId)
           THEN /\ RenderProfileCard(profilesCache[me.profileId])
                /\ handlers' = [handlers EXCEPT ![h] = Returned(me, "Card")]
                /\ running' = {}
           ELSE /\ handlers' = [handlers EXCEPT ![h].pc = "profWait"]
                /\ running' = {}
                /\ UNCHANGED domVars
    /\ UNCHANGED <<location, availableProfiles, profilesCache, site, preload,
                   nFetch, probe>>

\* app.js:408-413, 26-38: the fetch of the resolved profile ends
ProfileSettle(h) ==
    /\ running = {}
    /\ handlers[h].pc = "profWait"
    /\ \E o \in JsonOutcomes :
          LET me == handlers[h]
              r == loadProfileSettle(profilesCache, me.profileId, o)
          IN  /\ profilesCache' = r.cache
              /\ IF r.ret # NoProfile
                 THEN /\ RenderProfileCard(r.ret)
                      /\ handlers' = [handlers EXCEPT ![h] = Returned(me, "Card")]
                      /\ running' = {}
                 ELSE /\ handlers' = [handlers EXCEPT ![h] =
                            ListStarted(me, "NotFound", availableProfiles, r.cache)]
                      /\ running' = IF Uncached(r.cache, availableProfiles) = {}
                                    THEN {h} ELSE {}
                      /\ UNCHANGED domVars
    /\ UNCHANGED <<location, availableProfiles, site, preload, nFetch, probe>>

\* app.js:391-392 and 412-413, 26-38: one of the loads of the list ends
ListSettle(h, k) ==
    /\ running = {}
    /\ handlers[h].pc = "listWait"
    /\ k \in handlers[h].pending
    /\ \E o \in JsonOutcomes :
          LET me == handlers[h]
              r == loadProfileSettle(profilesCache, me.iter[k], o)
          IN  /\ profilesCache' = r.cache
              /\ handlers' = [handlers EXCEPT ![h].loaded[k] = r.ret,
                                              ![h].pending = @ \ {k}]
              /\ running' = IF me.pending = {k} THEN {h} ELSE {}
    /\ UNCHANGED <<location, availableProfiles, site, preload, domVars, nFetch,
                   probe>>

\* app.js:394-405 and 415-427: the list replaces the container's content
RenderList(h) ==
    /\ running = {h}
    /\ handlers[h].pc = "listWait"
    /\ handlers[h].pending = {}
    /\ container' = [kind |-> handlers[h].heading,
                     items |-> ListItems(handlers[h].loaded, availableProfiles, 1),
                     profile |-> NoProfile]
    /\ handlers' = [handlers EXCEPT ![h] = Returned(@, @.heading)]
    /\ running' = {}
    /\ UNCHANGED <<location, availableProfiles, profilesCache, site, preload,
                   documentTitle, openCurrentVCard, downloadCurrentVCard, nFetch,
                   probe>>

\* app.js:87-127, 26-38: one of the loads of the preloaded chunk ends; after the
\* last one the chunk's images are requested and the next chunk is started
PreloadSettle(k) ==
    /\ running = {}
    /\ preload.pc = "wait"
    /\ k \in preload.pending
    /\ \E o \in JsonOutcomes :
          LET cache == loadProfileSettle(profilesCache, preload.ids[k], o).cache
          IN  /\ profilesCache' = cache
              /\ preload' =
                    IF preload.pending = {k}
                    THEN PreloadFrom(preload.i + chunkSize, availableProfiles, cache)
                    ELSE [preload EXCEPT !.pending = @ \ {k}]
    /\ UNCHANGED <<location, availableProfiles, site, handlers, running, domVars,
                   nFetch, probe>>

Handlers == 1..Len(handlers)

Next ==
    \/ \E u \in NavURLs : PopState(u)
    \/ \E h \in Handlers : EnsureProfilesLoaded(h)
    \/ \E h \in Handlers : IndexSettle(h)
    \/ \E h \in Handlers : ListingSettle(h)
    \/ \E h \in Handlers : Resolve(h)
    \/ \E h \in Handlers : AliasStep(h)
    \/ \E h \in Handlers : AliasSettle(h)
    \/ \E h \in Handlers : RenderCard(h)
    \/ \E h \in Handlers : ProfileSettle(h)
    \/ \E h \in Handlers : \E k \in handlers[h].pending : ListSettle(h, k)
    \/ \E h \in Handlers : RenderList(h)
    \/ \E k \in preload.pending : PreloadSettle(k)

Spec == Init /\ [][Next]_vars

----------------------------------------------------------------------------
(* Specification SpecResolve: one handler resolves a drawn URL against a     *)
(* drawn directory and cache (app.js:582-587 and 636-641), up to its call of *)
(* renderCard                                                                *)

CuratedHashes ==
    { <<"#", "A">>, <<"#", "d">>, <<"#", "D">>, <<"#", "x">>,
      <<"#", "a">> \o DotHtm, <<"#", "/", "d">> \o DotHtml }

ResolveURLs ==
    [hash : HashValues \cup CuratedHashes,
     pathname : {<<"/">>, <<"/", "d">>, <<"/">> \o IndexHtml}]

\* the directories drawn
Directories ==
    {<<>>, <<IdA>>, <<IdB>>, <<IdA, IdB>>, <<IdB, IdA>>, <<IdN, IdB>>}

InitResolve ==
    /\ location \in ResolveURLs
    /\ availableProfiles \in Directories
    /\ profilesCache \in
          {c \in Caches : \A id \in ProfileIds :
                             c[id] # NoProfile => includes(availableProfiles, id)}
    /\ site \in {s \in Sites : ~s.isArray}
    /\ handlers = <<[NewHandler("pop") EXCEPT !.pc = "resolve"]>>
    /\ preload = NoPreload
    /\ running = {1}
    /\ container = EmptyContainer
    /\ documentTitle = DefaultTitle
    /\ openCurrentVCard = NoProfile
    /\ downloadCurrentVCard = NoProfile
    /\ nFetch = NoFetches
    /\ probe = [pc |-> "unused"]

NextResolve ==
    \/ \E h \in Handlers : Resolve(h)
    \/ \E h \in Handlers : AliasStep(h)
    \/ \E h \in Handlers : AliasSettle(h)

SpecResolve == InitResolve /\ [][NextResolve]_vars

----------------------------------------------------------------------------
(* Specification SpecDiscover: callers that only await ensureProfilesLoaded() *)
(* (app.js:577 and 635), one per event, overlapping as the events arrive      *)

\* the caller's await of ensureProfilesLoaded() completes and the caller ends
EnsureReturns(h) ==
    /\ running = {h}
    /\ handlers[h].pc = "resolve"
    /\ handlers' = [handlers EXCEPT ![h] = Returned(@, "none")]
    /\ running' = {}
    /\ UNCHANGED <<location, availableProfiles, profilesCache, site, preload,
                   domVars, nFetch, probe>>

NextDiscover ==
    \/ \E u \in NavURLs : PopState(u)
    \/ \E h \in Handlers : EnsureProfilesLoaded(h)
    \/ \E h \in Handlers : IndexSettle(h)
    \/ \E h \in Handlers : ListingSettle(h)
    \/ \E h \in Handlers : EnsureReturns(h)

SpecDiscover == Init /\ [][NextDiscover]_vars

----------------------------------------------------------------------------
(* Specification SpecExport: one click on "Add to Contacts" of a rendered   *)
(* card, window.openCurrentVCard() calling openVCard(profile), or one click *)
(* on its download link, window.downloadCurrentVCard(), in a browser whose  *)
(* export capabilities are drawn; then the timer set by the call fires      *)

\* the browsers drawn: navigator.msSaveOrOpenBlob absent, saving, returning
\* false or throwing; new File/navigator.canShare absent, refusing, accepting
\* or throwing; navigator.share absent, resolving or rejecting; the click on
\* the temporary anchor working or throwing; URL.createObjectURL working or
\* throwing
Browsers ==
    [msSave : {"absent", "ok", "fails", "throws"},
     canShare : {"absent", "false", "true", "throws"},
     share : {"absent", "resolves", "rejects"},
     click : {"ok", "throws"},
     createObjectURL : {"ok", "throws"}]

\* the iterations of the script
Scripts == {"app.js", "part_000"}

InitExport ==
    /\ location = [hash |-> <<"#">> \o IdA, pathname |-> <<"/">>]
    /\ availableProfiles = <<IdA>>
    /\ profilesCache = [EmptyCache EXCEPT ![IdA] = ProfileFile(IdA)]
    /\ site \in {s \in Sites : ~s.isArray}
    /\ handlers = <<>>
    /\ preload = NoPreload
    /\ running = {}
    /\ container = [kind |-> "Card", items |-> <<>>, profile |-> ProfileFile(IdA)]
    /\ documentTitle = ProfileFile(IdA).name \o TitleSuffix
    /\ openCurrentVCard = ProfileFile(IdA)
    /\ downloadCurrentVCard = ProfileFile(IdA)
    /\ nFetch = NoFetches
    /\ probe \in [pc : {"click"}, script : Scripts, browser : Browsers,
                  attempted : {<<>>}, failed : {{}}, raised : {FALSE},
                  alerted : {FALSE}, created : {FALSE}, timer : {"none"},
                  revocations : {0}]

\* app.js:339-342 and part_000:149-152: the legacy save is called when present
\* and openVCard returns, whatever the call does
LegacySave(p) ==
    [p EXCEPT !.pc = "returned", !.attempted = Append(@, "legacy"),
              !.failed = IF p.browser.msSave = "ok" THEN @ ELSE @ \cup {"legacy"},
              !.raised = p.browser.msSave = "throws"]

\* app.js:347 and part_000:157: the condition under which share is called
ShareOffered(b) == b.canShare = "true" /\ b.share # "absent"

\* app.js:356-374: the object URL is created outside any try block, the
\* anchor on it is clicked inside one, and the revocation is scheduled after it
AnchorOpen(p) ==
    IF p.browser.createObjectURL = "throws"
    THEN [p EXCEPT !.pc = "returned", !.attempted = Append(@, "anchor"),
                   !.failed = @ \cup {"anchor"}, !.raised = TRUE]
    ELSE [p EXCEPT !.pc = "returned", !.attempted = Append(@, "anchor"),
                   !.failed = IF p.browser.click = "ok" THEN @
                              ELSE @ \cup {"anchor"},
                   !.alerted = p.browser.click = "throws",
                   !.created = TRUE, !.timer = "scheduled"]

\* part_000:169-182: the object URL is created, the anchor on it is clicked
\* and the revocation is scheduled, none of it in a try block
AnchorOpenOld(p) ==
    IF p.browser.createObjectURL = "throws"
    THEN [p EXCEPT !.pc = "returned", !.attempted = Append(@, "anchor"),
                   !.failed = @ \cup {"anchor"}, !.raised = TRUE]
    ELSE IF p.browser.click = "throws"
    THEN [p EXCEPT !.pc = "returned", !.attempted = Append(@, "anchor"),
                   !.failed = @ \cup {"anchor"}, !.raised = TRUE,
                   !.created = TRUE]
    ELSE [p EXCEPT !.pc = "returned", !.attempted = Append(@, "anchor"),
                   !.created = TRUE, !.timer = "scheduled"]

\* app.js:334-375: openVCard up to its await of navigator.share
OpenVCard ==
    /\ probe.pc = "click"
    /\ probe.script = "app.js"
    /\ openCurrentVCard # NoProfile
    /\ probe' = IF probe.browser.msSave # "absent" THEN LegacySave(probe)
                ELSE IF ShareOffered(probe.browser)
                THEN [probe EXCEPT !.pc = "awaitShare",
                                   !.attempted = Append(@, "share")]
                ELSE AnchorOpen(probe)
    /\ UNCHANGED <<location, profilesCache, nFetch, pageVars>>

\* app.js:348-374: the promise of navigator.share settles
ShareSettle ==
    /\ probe.pc = "awaitShare"
    /\ probe.script = "app.js"
    /\ probe' = IF probe.browser.share = "resolves"
                THEN [probe EXCEPT !.pc = "returned"]
                ELSE AnchorOpen([probe EXCEPT !.failed = @ \cup {"share"}])
    /\ UNCHANGED <<location, profilesCache, nFetch, pageVars>>

\* part_000:144-183: openVCard, which does not await navigator.share
OpenVCardOld ==
    /\ probe.pc = "click"
    /\ probe.script = "part_000"
    /\ openCurrentVCard # NoProfile
    /\ probe' = IF probe.browser.msSave # "absent" THEN LegacySave(probe)
                ELSE IF ShareOffered(probe.browser)
                THEN [probe EXCEPT !.pc = "shareOutstanding",
                                   !.attempted = Append(@, "share")]
                ELSE AnchorOpenOld(probe)
    /\ UNCHANGED <<location, profilesCache, nFetch, pageVars>>

\* part_000:158-162: the promise of navigator.share settles after openVCard
\* has returned; its rejection handler is empty
ShareSettleOld ==
    /\ probe.pc = "shareOutstanding"
    /\ probe.script = "part_000"
    /\ probe' = [probe EXCEPT !.pc = "returned",
                    !.failed = IF probe.browser.share = "resolves" THEN @
                               ELSE @ \cup {"share"}]
    /\ UNCHANGED <<location, profilesCache, nFetch, pageVars>>

\* app.js:551-569: downloadCurrentVCard, all of it in one try block with the
\* scheduling of the revocation as its last statement
DownloadCurrentVCard ==
    /\ probe.pc = "click"
    /\ probe.script = "app.js"
    /\ downloadCurrentVCard # NoProfile
    /\ probe' =
          IF probe.browser.createObjectURL = "throws"
          THEN [probe EXCEPT !.pc = "returned",
                             !.attempted = Append(@, "download"),
                             !.failed = @ \cup {"download"}, !.alerted = TRUE]
          ELSE IF probe.browser.click = "throws"
          THEN [probe EXCEPT !.pc = "returned",
                             !.attempted = Append(@, "download"),
                             !.failed = @ \cup {"download"}, !.alerted = TRUE,
                             !.created = TRUE]
          ELSE [probe EXCEPT !.pc = "returned",
                             !.attempted = Append(@, "download"),
                             !.created = TRUE, !.timer = "scheduled"]
    /\ UNCHANGED <<location, profilesCache, nFetch, pageVars>>

\* app.js:374 and 564, part_000:182: the timer fires and the URL is revoked
RevokeObjectURL ==
    /\ probe.pc = "returned"
    /\ probe.timer = "scheduled"
    /\ probe' = [probe EXCEPT !.timer = "fired", !.revocations = @ + 1]
    /\ UNCHANGED <<location, profilesCache, nFetch, pageVars>>

NextExport ==
    \/ OpenVCard
    \/ ShareSettle
    \/ OpenVCardOld
    \/ ShareSettleOld
    \/ DownloadCurrentVCard
    \/ RevokeObjectURL

SpecExport == InitExport /\ [][NextExport]_vars

----------------------------------------------------------------------------
(* Contact fields of a profile record: phone and email, each absent, one    *)
(* string or an array of strings                                            *)

\* the longest phone or email array drawn
MaxValues == 2

Absent == [kind |-> "absent", vals |-> <<>>]
One(v) == [kind |-> "string", vals |-> <<v>>]
Many(vs) == [kind |-> "array", vals |-> vs]

PhoneStrings == {<<"1">>, <<"2", " ">>}
EmailStrings == {<<"x">>, <<"y">>}

\* the values a contact field of a fetched record can have
ContactValues(A) ==
    {Absent} \cup {One(v) : v \in A}
             \cup {Many(vs) : vs \in UNION {[1..k -> A] : k \in 0..MaxValues}}

\* String.prototype.replace(/\s/g, '')
RECURSIVE StripSpaces(_)
StripSpaces(str) ==
    IF str = <<>> THEN <<>>
    ELSE IF Head(str) = " " THEN StripSpaces(Tail(str))
    ELSE <<Head(str)>> \o StripSpaces(Tail(str))

\* app.js:431-432: the values of a contact field, none when it is absent
ContactList(field) == field.vals

\* part_000:231-232: the value of a field that is not an array is wrapped as
\* it is, so an absent field gives one undefined entry
ContactListOld(field) ==
    IF field.kind = "absent" THEN <<Null>> ELSE field.vals

----------------------------------------------------------------------------
(* Specification SpecCard: the card branch of renderCard applied to a drawn *)
(* record, in both iterations of the script                                 *)

CardRecords ==
    [name : {Null, <<"D", ".">>},
     phone : ContactValues(PhoneStrings),
     email : ContactValues(EmailStrings)]

NoView == [kind |-> "none", tel |-> <<>>, mailto |-> <<>>,
           phoneSection |-> FALSE, emailSection |-> FALSE]

InitCard ==
    /\ location = [hash |-> <<"#">> \o IdA, pathname |-> <<"/">>]
    /\ probe \in [pc : {"loaded"}, script : Scripts, record : CardRecords,
                  view : {NoView}]
    /\ profilesCache = EmptyCache
    /\ nFetch = NoFetches
    /\ PageAtRest

\* app.js:431-532: the card is built from the record; an absent phone or email
\* gives no entries and its section is left out
RenderCardBody ==
    /\ probe.pc = "loaded"
    /\ probe.script = "app.js"
    /\ LET phones == ContactList(probe.record.phone)
           emails == ContactList(probe.record.email)
       IN  probe' = [probe EXCEPT
              !.pc = "rendered",
              !.view = [kind |-> "Card",
                        tel |-> [k \in 1..Len(phones) |-> StripSpaces(phones[k])],
                        mailto |-> emails,
                        phoneSection |-> Len(phones) > 0,
                        emailSection |-> Len(emails) > 0]]
    /\ UNCHANGED <<location, profilesCache, nFetch, pageVars>>

\* part_000:231-309: the card is built from the record; phone.replace is
\* called on every entry, and throws on the undefined entry of an absent phone
RenderCardBodyOld ==
    /\ probe.pc = "loaded"
    /\ probe.script = "part_000"
    /\ LET phones == ContactListOld(probe.record.phone)
           emails == ContactListOld(probe.record.email)
       IN  probe' = [probe EXCEPT
              !.pc = "rendered",
              !.view = IF \E k \in 1..Len(phones) : phones[k] = Null
                       THEN [NoView EXCEPT !.kind = "aborted"]
                       ELSE [kind |-> "Card",
                             tel |-> [k \in 1..Len(phones) |->
                                         StripSpaces(phones[k])],
                             mailto |-> emails,
                             phoneSection |-> Len(phones) > 0,
                             emailSection |-> Len(emails) > 0]]
    /\ UNCHANGED <<location, profilesCache, nFetch, pageVars>>

NextCard == RenderCardBody \/ RenderCardBodyOld

SpecCard == InitCard /\ [][NextCard]_vars

----------------------------------------------------------------------------
(* Specification SpecBatch: page load and popstate events on a site whose    *)
(* directory is longer than one preloading chunk, followed through discovery *)
(* and preloading; alias resolution and rendering are left out               *)

\* how many profiles the directory has beyond one chunk
MaxExtra == 2

\* identifiers of profiles whose files are missing
IdQ(k) == <<"q", ToString(k)>>

BigDirectory ==
    <<IdA>> \o [k \in 1..(chunkSize + MaxExtra - 2) |-> IdQ(k)] \o <<IdB>>

BigSites ==
    { [isArray |-> TRUE, index |-> BigDirectory,
       listing |-> [k \in 1..(chunkSize + 1) |-> BigDirectory[k] \o DotJson]] }

InitBatch ==
    /\ location = [hash |-> <<>>, pathname |-> <<"/">>]
    /\ site \in BigSites
    /\ availableProfiles = <<>>
    /\ profilesCache =
          [id \in ProfileIds \cup {BigDirectory[k] : k \in 1..Len(BigDirectory)}
              |-> NoProfile]
    /\ handlers = <<NewHandler("load")>>
    /\ preload = NoPreload
    /\ running = {1}
    /\ container = EmptyContainer
    /\ documentTitle = DefaultTitle
    /\ openCurrentVCard = NoProfile
    /\ downloadCurrentVCard = NoProfile
    /\ nFetch = NoFetches
    /\ probe = [pc |-> "unused"]

\* the handler has resolved its URL (app.js:582); what it does next is left
\* out, it gives up control for good
HandlerYields(h) ==
    /\ running = {h}
    /\ handlers[h].pc \in {"render", "alias"}
    /\ handlers' = [handlers EXCEPT ![h] = Returned(@, "none")]
    /\ running' = {}
    /\ UNCHANGED <<location, availableProfiles, profilesCache, site, preload,
                   domVars, nFetch, probe>>

NextBatch ==
    \/ \E u \in {v \in NavURLs : v.hash = <<>> /\ v.pathname = <<"/">>} :
          PopState(u)
    \/ \E h \in Handlers : EnsureProfilesLoaded(h)
    \/ \E h \in Handlers : IndexSettle(h)
    \/ \E h \in Handlers : ListingSettle(h)
    \/ \E h \in Handlers : Resolve(h)
    \/ \E h \in Handlers : HandlerYields(h)
    \/ \E k \in preload.pending : PreloadSettle(k)

SpecBatch == InitBatch /\ [][NextBatch]_vars

----------------------------------------------------------------------------
(* Specification SpecList: one handler that has resolved its URL calls      *)
(* renderCard (app.js:589 and 643) on a drawn directory and cache           *)

InitList ==
    /\ location = [hash |-> <<>>, pathname |-> <<"/">>]
    /\ availableProfiles \in Directories
    /\ profilesCache \in
          {c \in Caches : \A id \in ProfileIds :
                             c[id] # NoProfile => includes(availableProfiles, id)}
    /\ site \in {s \in Sites : ~s.isArray}
    /\ \E id \in {Null} \cup {availableProfiles[k] : k \in 1..Len(availableProfiles)} :
          handlers = <<[NewHandler("pop") EXCEPT !.pc = "render",
                                                 !.candidate = id,
                                                 !.profileId = id]>>
    /\ preload = NoPreload
    /\ running = {1}
    /\ container = EmptyContainer
    /\ documentTitle = DefaultTitle
    /\ openCurrentVCard = NoProfile
    /\ downloadCurrentVCard = NoProfile
    /\ nFetch = NoFetches
    /\ probe = [pc |-> "unused"]

NextList ==
    \/ \E h \in Handlers : RenderCard(h)
    \/ \E h \in Handlers : ProfileSettle(h)
    \/ \E h \in Handlers : \E k \in handlers[h].pending : ListSettle(h, k)
    \/ \E h \in Handlers : RenderList(h)

SpecList == InitList /\ [][NextList]_vars

----------------------------------------------------------------------------
(* vCard generation. A text is a sequence of characters; the literal parts  *)
(* of the templates are kept as single tokens                               *)

CRLF == <<"\r", "\n">>
LF == <<"\n">>

\* a template literal's ${value}: undefined is written out
Interpolated(v) == IF v = Null THEN <<"undefined">> ELSE v

\* value || ''
OrEmpty(v) == IF v = Null THEN <<>> ELSE v

\* Array.prototype.join
RECURSIVE Join(_, _)
Join(strs, sep) ==
    IF strs = <<>> THEN <<>>
    ELSE IF Len(strs) = 1 THEN strs[1]
    ELSE strs[1] \o sep \o Join(Tail(strs), sep)

\* Array.prototype.filter(Boolean) on strings: the empty ones are dropped
RECURSIVE FilterNonEmpty(_)
FilterNonEmpty(strs) ==
    IF strs = <<>> THEN <<>>
    ELSE IF Head(strs) = <<>> THEN FilterNonEmpty(Tail(strs))
    ELSE <<Head(strs)>> \o FilterNonEmpty(Tail(strs))

\* String.prototype.trim().split(/\s+/): the words of a name
RECURSIVE Words(_, _)
Words(str, word) ==
    IF str = <<>> THEN (IF word = <<>> THEN <<>> ELSE <<word>>)
    ELSE IF Head(str) = " "
         THEN (IF word = <<>> THEN <<>> ELSE <<word>>) \o Words(Tail(str), <<>>)
         ELSE Words(Tail(str), Append(word, Head(str)))

\* app.js:281 and 286: a field that is not an array is wrapped as it is
VCardValues(field) == IF field.kind = "absent" THEN <<Null>> ELSE field.vals

\* a buggy variant: every phone is typed as the preferred one
TelType_AlwaysPreferred(idx) == <<"WORK,PREF">>

\* app.js:287-289
TelType(idx) == IF idx = 0 THEN <<"WORK,PREF">> ELSE <<"CELL">>

\* app.js:282-284
EmailType(idx) == IF idx = 0 THEN <<"WORK,PREF">> ELSE <<"HOME">>

\* app.js:287-289
PhoneLines(phones) ==
    [k \in 1..Len(phones) |->
        <<"TEL;TYPE=">> \o TelType(k - 1) \o <<":">> \o Interpolated(phones[k])]

\* app.js:282-284
EmailLines(emails) ==
    [k \in 1..Len(emails) |->
        <<"EMAIL;TYPE=">> \o EmailType(k - 1) \o <<":">> \o Interpolated(emails[k])]

\* app.js:292-299
NField(name) ==
    IF name = Null \/ name = <<>> THEN <<>>
    ELSE LET parts == Words(name, <<>>)
             given == IF parts = <<>> THEN <<>> ELSE Head(parts)
             rest == IF parts = <<>> THEN <<>> ELSE Tail(parts)
             family == IF rest = <<>> THEN <<>> ELSE rest[Len(rest)]
             middle == IF rest = <<>> THEN <<>> ELSE SubSeq(rest, 1, Len(rest) - 1)
         IN  <<"N:">> \o family \o <<";">> \o given \o <<";">>
                      \o Join(middle, <<" ">>) \o <<";", ";">>

\* a buggy variant: the title is left out of the text
generateVCard_NoTitle(profile) ==
    Join(<<<<"BEGIN:VCARD">>, <<"FN:">> \o OrEmpty(profile.name)>>
            \o PhoneLines(VCardValues(profile.phone))
            \o EmailLines(VCardValues(profile.email))
            \o <<<<"END:VCARD">>>>, CRLF)

\* app.js:279-317
generateVCard(profile) ==
    LET emailLines == Join(EmailLines(VCardValues(profile.email)), CRLF)
        phoneLines == Join(PhoneLines(VCardValues(profile.phone)), CRLF)
        parts == << <<"BEGIN:VCARD">>,
                    <<"VERSION:3.0">>,
                    <<"FN:">> \o OrEmpty(profile.name),
                    NField(profile.name),
                    <<"TITLE:">> \o OrEmpty(profile.title),
                    <<"ORG:Hassan II Institute of Agronomy and Veterinary Medicine">> >>
                 \o (IF phoneLines # <<>> THEN <<phoneLines>> ELSE <<>>)
                 \o (IF emailLines # <<>> THEN <<emailLines>> ELSE <<>>)
                 \o << <<"URL:https://">> \o OrEmpty(profile.website),
                       <<"ADR:;;">> \o OrEmpty(profile.location),
                       <<"END:VCARD">> >>
    IN  Join(FilterNonEmpty(parts), CRLF)

\* part_000:61-82
generateVCardOld(profile) ==
    LET emailLines == Join(EmailLines(VCardValues(profile.email)), LF)
        phoneLines == Join(PhoneLines(VCardValues(profile.phone)), LF)
    IN  Join(<< <<"BEGIN:VCARD">>,
                <<"VERSION:3.0">>,
                <<"FN:">> \o Interpolated(profile.name),
                <<"TITLE:">> \o Interpolated(profile.title),
                <<"ORG:Hassan II Institute of Agronomy and Veterinary Medicine">>,
                phoneLines,
                emailLines,
                <<"URL:https://">> \o Interpolated(profile.website),
                <<"ADR:;;">> \o Interpolated(profile.location),
                <<"END:VCARD">> >>, LF)

----------------------------------------------------------------------------
(* Specification SpecVCard: generateVCard applied to a drawn record, in both *)
(* iterations of the script                                                  *)

VCardRecords ==
    [name : {Null, <<"D", ".">>, <<"A", " ", "M", " ", "B">>},
     title : {<<"T">>},
     phone : ContactValues(PhoneStrings),
     email : ContactValues(EmailStrings),
     website : {Null},
     location : {Null, <<"R">>}]

InitVCard ==
    /\ location = [hash |-> <<"#">> \o IdA, pathname |-> <<"/">>]
    /\ probe \in [pc : {"loaded"}, script : Scripts, record : VCardRecords,
                  text : {<<>>}]
    /\ profilesCache = EmptyCache
    /\ nFetch = NoFetches
    /\ PageAtRest

\* app.js:279-317 called from openVCard or downloadCurrentVCard
GenerateVCard ==
    /\ probe.pc = "loaded"
    /\ probe.script = "app.js"
    /\ probe' = [probe EXCEPT !.pc = "generated",
                              !.text = generateVCard(probe.record)]
    /\ UNCHANGED <<location, profilesCache, nFetch, pageVars>>

\* part_000:61-82 called from getVCardUrl
GenerateVCardOld ==
    /\ probe.pc = "loaded"
    /\ probe.script = "part_000"
    /\ probe' = [probe EXCEPT !.pc = "generated",
                              !.text = generateVCardOld(probe.record)]
    /\ UNCHANGED <<location, profilesCache, nFetch, pageVars>>

NextVCard == GenerateVCard \/ GenerateVCardOld

SpecVCard == InitVCard /\ [][NextVCard]_vars

----------------------------------------------------------------------------
(* Specification SpecVCardPair: generateVCard (app.js) applied to two drawn *)
(* records whose name, title, phone and email are single strings without    *)
(* line breaks                                                              *)

WellFormedRecords ==
    [name : {<<"A">>, <<"A", " ">>, <<"A", " ", "B">>},
     title : {<<"T">>, <<"T", ":">>},
     phone : {One(v) : v \in PhoneStrings},
     email : {One(v) : v \in EmailStrings},
     website : {Null, <<"w">>},
     location : {Null}]

InitVCardPair ==
    /\ location = [hash |-> <<"#">> \o IdA, pathname |-> <<"/">>]
    /\ probe \in [pc : {"loaded"}, p : WellFormedRecords, q : WellFormedRecords,
                  textP : {<<>>}, textQ : {<<>>}]
    /\ profilesCache = EmptyCache
    /\ nFetch = NoFetches
    /\ PageAtRest

\* app.js:279-317, once on each record
GenerateVCardPair ==
    /\ probe.pc = "loaded"
    /\ probe' = [probe EXCEPT !.pc = "generated",
                              !.textP = generateVCard(probe.p),
                              !.textQ = generateVCard(probe.q)]
    /\ UNCHANGED <<location, profilesCache, nFetch, pageVars>>

NextVCardPair == GenerateVCardPair

SpecVCardPair == InitVCardPair /\ [][NextVCardPair]_vars

----------------------------------------------------------------------------
(* Specification SpecHandle: a handler resolves a drawn URL against the     *)
(* directory and renders the result (app.js:582-589 and 636-643) while the  *)
(* discovery of an overlapping handler, begun when the directory was still  *)
(* empty, is waiting for the profiles/ listing                              *)

InitHandle ==
    /\ location \in ResolveURLs
    /\ site \in {[isArray |-> TRUE, index |-> dir, listing |-> <<HrefUp, HrefA>>] :
                    dir \in Directories}
    /\ availableProfiles = site.index
    /\ profilesCache \in
          {c \in Caches : \A id \in ProfileIds :
                             c[id] # NoProfile => includes(availableProfiles, id)}
    /\ handlers = <<[NewHandler("pop") EXCEPT !.pc = "resolve"],
                    [NewHandler("pop") EXCEPT !.pc = "dir", !.idx = "notok",
                                              !.listed = TRUE]>>
    /\ preload = NoPreload
    /\ running = {1}
    /\ container = EmptyContainer
    /\ documentTitle = DefaultTitle
    /\ openCurrentVCard = NoProfile
    /\ downloadCurrentVCard = NoProfile
    /\ nFetch = [index |-> 2, dir |-> 1]
    /\ probe = [pc |-> "unused"]

NextHandle ==
    \/ \E h \in Handlers : ListingSettle(h)
    \/ \E h \in Handlers : Resolve(h)
    \/ \E h \in Handlers : AliasStep(h)
    \/ \E h \in Handlers : AliasSettle(h)
    \/ \E h \in Handlers : RenderCard(h)
    \/ \E h \in Handlers : ProfileSettle(h)
    \/ \E h \in Handlers : \E k \in handlers[h].pending : ListSettle(h, k)
    \/ \E h \in Handlers : RenderList(h)

SpecHandle == InitHandle /\ [][NextHandle]_vars

----------------------------------------------------------------------------
(* Claims *)

FailureOutcomes == {"neterr", "notok", "badjson"}

\* the fetches of profiles/<id>.json the sequential calls have issued
ProbeFetches ==
    Cardinality({k \in 1..Len(probe.log) : probe.log[k].fetched})
        + (IF probe.pc = "await" THEN 1 ELSE 0)

\* C1 as stated: two loadProfile(id) calls made in sequence perform at most one
\* fetch of profiles/<id>.json in total, whatever the fetch outcomes.
C1_AtMostOneFetchWhateverTheOutcome ==
    Len(probe.log) >= 2 => ProbeFetches <= 1

\* C1 amended: when the first of the sequential calls returns a record, no later
\* call fetches and one fetch at most is made in total; a call that follows a
\* call which returned null fetches again.
C1_MemoizedOnceARecordIsReturned ==
    /\ (Len(probe.log) >= 1 /\ probe.log[1].ret # NoProfile) =>
          /\ ProbeFetches <= 1
          /\ \A k \in 2..Len(probe.log) : ~probe.log[k].fetched
    /\ \A k \in 2..Len(probe.log) :
          probe.log[k - 1].ret = NoProfile => probe.log[k].fetched

\* C1 witness: the first call fetched a record and the second call completed
\* from the cache.
C1_SecondCallServedFromCache ==
    /\ Len(probe.log) >= 2
    /\ probe.log[1].fetched /\ probe.log[1].ret # NoProfile
    /\ probe.log[2].outcome = "hit"
    /\ ProbeFetches = 1

\* C4: loadProfile never raises; a network error, a non-success status or a
\* parse error gives null and leaves the cache as it was; the cache changes only
\* at cache[id] and only on a successful fetch and parse; a cached record is
\* returned without a fetch.
C4_LoadProfileContract ==
    \A k \in 1..Len(probe.log) :
        LET e == probe.log[k]
        IN  /\ ~e.threw
            /\ e.outcome \in FailureOutcomes =>
                  (e.ret = NoProfile /\ e.after = e.before)
            /\ e.after # e.before =>
                  /\ e.outcome = "ok"
                  /\ e.after = [e.before EXCEPT ![probe.id] = ProfileFile(probe.id)]
                  /\ e.ret = ProfileFile(probe.id)
            /\ e.before[probe.id] # NoProfile =>
                  (e.outcome = "hit" /\ ~e.fetched /\ e.ret = e.before[probe.id])

\* C4 witness: a call failed on a parse error, then a call fetched and cached
\* the record.
C4_FailureThenSuccess ==
    /\ Len(probe.log) >= 2
    /\ probe.log[1].outcome = "badjson" /\ probe.log[1].ret = NoProfile
    /\ probe.log[2].outcome = "ok"
    /\ probe.log[2].after # probe.log[2].before

\* the final path segment (a trailing slash ignored) contains a dot
FinalSegmentHasDot(path) ==
    LET p == IF path # <<>> /\ path[Len(path)] = "/"
             THEN SubSeq(path, 1, Len(path) - 1) ELSE path
    IN  \E k \in 1..Len(p) : p[k] = "." /\ \A j \in k..Len(p) : p[j] # "/"

\* C8 as stated: for every URL whose final path segment contains a dot,
\* resolution returns none.
C8_DottedSegmentGivesNone ==
    (probe.pc = "resolved" /\ FinalSegmentHasDot(location.pathname)) =>
        probe.ret = Null

\* C8 amended: for every URL with an empty hash whose final path segment
\* contains a dot, resolution returns none.
C8_DottedSegmentGivesNoneWithoutHash ==
    (/\ probe.pc = "resolved"
     /\ location.hash = <<>>
     /\ FinalSegmentHasDot(location.pathname)) => probe.ret = Null

\* C8 witness: /index.html without a hash has been resolved to none.
C8_IndexHtmlResolved ==
    /\ probe.pc = "resolved"
    /\ location.hash = <<>>
    /\ location.pathname = <<"/">> \o IndexHtml
    /\ probe.ret = Null

\* C5: once availableProfiles is non-empty, a call of ensureProfilesLoaded
\* issues no fetch, leaves availableProfiles unchanged and returns at once.
C5_EnsureIsNoOpOnceLoaded ==
    [][\A h \in Handlers :
          (/\ handlers[h].pc = "ensure"
           /\ handlers'[h].pc # "ensure"
           /\ Len(availableProfiles) > 0) =>
              /\ nFetch' = nFetch
              /\ availableProfiles' = availableProfiles
              /\ handlers'[h].pc = "resolve"]_vars

\* C5 witness: a call has returned without any discovery step while the
\* directory was already known.
C5_SecondCallSkipped ==
    \E h \in Handlers :
        /\ h > 1
        /\ handlers[h].pc = "resolve"
        /\ handlers[h].idx = "none"
        /\ Len(availableProfiles) > 0
        /\ nFetch.index >= 1

\* the handlers that went through alias resolution and now hold its answer
AliasResolved ==
    {h \in Handlers : /\ handlers[h].pc = "render"
                      /\ handlers[h].candidate # Null
                      /\ ~includes(availableProfiles, handlers[h].candidate)}

\* record p declares a path that normalizes to n, or has a name whose slug is s
AnswersTo(p, n, s) ==
    \/ p.path # Null /\ p.path # <<>> /\ NormalizeDeclaredPath(p.path) = n
    \/ p.name # Null /\ p.name # <<>> /\ SlugOf(p.name) = s

\* the answer described for the normalized candidate n compared as s with the
\* slugs: the first entry of the directory, its failed loads skipped, whose
\* record answers; null when there is none
FirstAnswer(me, n, s) ==
    LET hits == {k \in 1..Len(me.iter) :
                    k \notin me.failed /\ AnswersTo(ProfileFile(me.iter[k]), n, s)}
    IN  IF hits = {} THEN Null
        ELSE me.iter[CHOOSE k \in hits : \A j \in hits : k <= j]

\* C6 as stated: for a candidate that is not a known identifier, alias
\* resolution returns the first identifier in directory order whose loaded
\* record has a normalized path or a name slug equal to the normalized
\* candidate, null when there is none, skipping failed loads.
C6_FirstMatchByPathOrSlug ==
    \A h \in AliasResolved :
        LET n == NormalizeSegment(handlers[h].candidate)
        IN  handlers[h].profileId = FirstAnswer(handlers[h], n, n)

\* C6 amended: the normalized candidate is returned itself when it is a known
\* identifier; otherwise the first identifier in directory order whose loaded
\* record has a normalized path equal to the normalized candidate or a name
\* slug equal to the lowercased normalized candidate, null when there is
\* none, skipping failed loads.
C6_DirectIdThenFirstMatchIgnoringCase ==
    \A h \in AliasResolved :
        LET n == NormalizeSegment(handlers[h].candidate)
        IN  handlers[h].profileId =
               IF includes(availableProfiles, n) THEN n
               ELSE FirstAnswer(handlers[h], n, toLowerCase(n))

\* C6 witness: the first entry of the directory failed to load and was
\* skipped, and the second entry answered to the candidate.
C6_SecondEntryAnswersAfterFailedFirst ==
    \E h \in AliasResolved :
        /\ Len(handlers[h].iter) = 2
        /\ 1 \in handlers[h].failed
        /\ handlers[h].profileId = handlers[h].iter[2]

\* the handlers that have resolved a URL with a non-empty hash
HashResolved ==
    {h \in Handlers : handlers[h].pc = "render" /\ HashOf(handlers[h].url) # <<>>}

\* C7 as stated: for every non-empty hash and every directory, resolution of
\* the URL returns the hash unchanged.
C7_HashReturnedVerbatim ==
    \A h \in HashResolved : handlers[h].profileId = HashOf(handlers[h].url)

\* C7 amended: for every non-empty hash, the candidate is the hash unchanged
\* whatever the path and the directory; the resolved identifier is the hash
\* when the hash is a member of the directory.
C7_HashIsCandidateAndKeptWhenKnown ==
    \A h \in HashResolved :
        /\ handlers[h].candidate = HashOf(handlers[h].url)
        /\ includes(availableProfiles, HashOf(handlers[h].url)) =>
              handlers[h].profileId = HashOf(handlers[h].url)

\* C7 witness: a URL with both a hash naming a known profile and a path
\* segment has resolved to the hash.
C7_KnownHashWinsOverPath ==
    \E h \in HashResolved :
        /\ handlers[h].url.pathname = <<"/", "d">>
        /\ includes(availableProfiles, HashOf(handlers[h].url))
        /\ handlers[h].profileId = HashOf(handlers[h].url)

\* C2: a handler that found an identifier in the URL which is neither in the
\* directory nor matched by alias resolution ends by rendering the NotFound
\* view.
C2_UnknownIdentifierEndsInNotFound ==
    \A h \in Handlers :
        (/\ handlers[h].pc = "done"
         /\ handlers[h].candidate # Null
         /\ ~includes(availableProfiles, handlers[h].candidate)
         /\ handlers[h].profileId = Null) => handlers[h].heading = "NotFound"

\* C3: whenever the attempt on profiles/index.json has failed (network error,
\* non-success status, unparsable body, body that is not an array), discovery
\* has gone on to fetch the profiles/ listing.
C3_EveryIndexFailureFallsBackToListing ==
    \A h \in Handlers :
        (/\ handlers[h].pc = "resolve"
         /\ handlers[h].idx \in {"neterr", "notok", "badjson", "notarray"})
            => handlers[h].listed

\* C9: while the Listing or the NotFound view is shown, the document title
\* and the export actions are not those of a previously rendered card.
C9_NothingOfACardSurvivesAListing ==
    container.kind \in {"Listing", "NotFound"} =>
        /\ documentTitle = DefaultTitle
        /\ openCurrentVCard = NoProfile
        /\ downloadCurrentVCard = NoProfile

\* C10: once openVCard is over, every strategy before the anchor that was
\* attempted and failed has been followed by an attempt of a later strategy.
C10_FailedStrategyFallsThrough ==
    (probe.pc = "returned") =>
        \A k \in 1..Len(probe.attempted) :
            (/\ probe.attempted[k] \in probe.failed
             /\ probe.attempted[k] \in {"legacy", "share"})
                => k < Len(probe.attempted)

\* C11: no export action of app.js lets an exception or a rejected promise
\* escape, and a failure of the last fallback is told to the user.
C11_ExportNeverRaises ==
    (probe.pc = "returned" /\ probe.script = "app.js") =>
        /\ ~probe.raised
        /\ probe.attempted[Len(probe.attempted)] \in probe.failed =>
              probe.alerted

\* C12: once an export action of app.js is over, every object URL it has
\* created has its revocation scheduled or done, and no URL is revoked twice.
C12_EveryObjectURLIsRevoked ==
    (probe.pc = "returned" /\ probe.script = "app.js" /\ probe.created) =>
        /\ probe.timer \in {"scheduled", "fired"}
        /\ probe.revocations <= 1

\* C13: the card branch of renderCard ends with a view on every record,
\* whichever of its optional fields are missing; it is never aborted.
C13_RenderEndsWithAView ==
    (probe.pc = "rendered") =>
        probe.view.kind \in {"Listing", "NotFound", "Card"}

\* C14: no step removes or replaces a cached record, and no step removes an
\* identifier from availableProfiles.
C14_CacheAndDirectoryAppendOnly ==
    [][/\ \A id \in ProfileIds :
             profilesCache[id] # NoProfile => profilesCache'[id] = profilesCache[id]
       /\ \A k \in 1..Len(availableProfiles) :
             includes(availableProfiles', availableProfiles[k])]_vars

\* C15: preloading never has more than chunkSize of its loads in flight, its
\* next batch starts only in the step in which the last load of the current
\* batch settles, and every discovery issues at most one request for the index
\* and at most one for the listing, one after the other.
C15_BatchesOfAtMostChunkSize ==
    [][/\ Cardinality(preload'.pending) <= chunkSize
       /\ (preload.pc = "wait" /\ preload'.i # preload.i) =>
              Cardinality(preload.pending) = 1
       /\ nFetch'.index <= Len(handlers')
       /\ nFetch'.dir <= nFetch'.index]_vars

\* C15 witness: the directory is longer than one chunk and the second batch
\* of preloading is in flight.
C15_SecondBatchInFlight ==
    /\ Len(availableProfiles) > chunkSize
    /\ preload.pc = "wait"
    /\ preload.i = chunkSize
    /\ preload.pending # {}

\* a Listing or NotFound view is on screen
ListShown == container.kind \in {"Listing", "NotFound"}

LoadedPositions(loaded) == {k \in 1..Len(loaded) : loaded[k] # NoProfile}

RECURSIVE SplitLines(_, _)
SplitLines(text, line) ==
    IF text = <<>> THEN <<line>>
    ELSE IF Head(text) = "\n" THEN <<line>> \o SplitLines(Tail(text), <<>>)
    ELSE SplitLines(Tail(text), Append(line, Head(text)))

\* the lines of a text, ended by CRLF or by LF
TextLines(text) ==
    LET raw == SplitLines(text, <<>>)
    IN  [k \in 1..Len(raw) |->
            IF raw[k] # <<>> /\ raw[k][Len(raw[k])] = "\r"
            THEN SubSeq(raw[k], 1, Len(raw[k]) - 1) ELSE raw[k]]

StartsWith(line, token) == line # <<>> /\ line[1] = token

\* the TEL lines and the EMAIL lines of a text, in order
TelLinesOf(text) ==
    SelectSeq(TextLines(text), LAMBDA l : StartsWith(l, "TEL;TYPE="))
EmailLinesOf(text) ==
    SelectSeq(TextLines(text), LAMBDA l : StartsWith(l, "EMAIL;TYPE="))

\* C17: for a profile with n >= 1 phone values the text has exactly n TEL
\* lines in input order, the first typed WORK,PREF and the later ones CELL;
\* likewise n EMAIL lines, the first typed WORK,PREF and the later ones HOME.
C17_OneTypedLinePerValue ==
    (probe.pc = "generated") =>
        LET phones == probe.record.phone.vals
            emails == probe.record.email.vals
        IN  /\ Len(phones) >= 1 =>
                  TelLinesOf(probe.text) =
                     [k \in 1..Len(phones) |->
                         <<"TEL;TYPE=", IF k = 1 THEN "WORK,PREF" ELSE "CELL", ":">>
                            \o phones[k]]
            /\ Len(emails) >= 1 =>
                  EmailLinesOf(probe.text) =
                     [k \in 1..Len(emails) |->
                         <<"EMAIL;TYPE=", IF k = 1 THEN "WORK,PREF" ELSE "HOME", ":">>
                            \o emails[k]]

\* C17 witness: a record with two phone numbers has given two TEL lines with
\* different TYPE values.
C17_TwoPhonesTwoTypes ==
    /\ probe.pc = "generated"
    /\ Len(probe.record.phone.vals) = 2
    /\ Len(TelLinesOf(probe.text)) = 2
    /\ TelLinesOf(probe.text)[1][2] # TelLinesOf(probe.text)[2][2]

\* the fields on which the texts are compared
ContactTuple(r) == <<r.name, r.title, r.phone, r.email>>

\* C18: two well-formed profiles that differ in name, title, phone or email
\* give different vCard texts.
C18_DistinctProfilesDistinctTexts ==
    (probe.pc = "generated" /\ ContactTuple(probe.p) # ContactTuple(probe.q)) =>
        probe.textP # probe.textQ

\* C18 witness: two profiles that differ in their title alone have given
\* different texts.
C18_TitleAloneTellsApart ==
    /\ probe.pc = "generated"
    /\ probe.p.title # probe.q.title
    /\ [probe.p EXCEPT !.title = probe.q.title] = probe.q
    /\ probe.textP # probe.textQ

\* C19: once every handler has finished, the view on screen is the one
\* computed for the most recent navigation event.
C19_LastEventDecidesTheView ==
    (Len(handlers) >= 2 /\ \A h \in Handlers : handlers[h].pc = "done") =>
        LET last == handlers[Len(handlers)]
        IN  /\ container.kind = last.heading
            /\ container.kind = "Card" => container.profile.id = last.profileId

\* id is one of the identifiers of directory dir
MemberOf(dir, id) == \E k \in 1..Len(dir) : dir[k] = id

C21_AsManyLinesAsValues ==
    (probe.pc = "generated") =>
        /\ Len(TelLinesOf(probe.text)) = Len(ContactList(probe.record.phone))
        /\ Len(EmailLinesOf(probe.text)) = Len(ContactList(probe.record.email))

====
